---- MODULE Spec2Model ----
(***************************************************************************)
(* A model of the Opus bitstream framing layer of nuew/opi:                *)
(*   - src/src/packet.rs : Packet::new_with_framing and its four layout    *)
(*     decoders (RFC 6716 section 3),                                      *)
(*   - src/src/ogg.rs    : OggOpusReader::new and the two header parsers.  *)
(*                                                                         *)
(* Byte buffers.  A buffer is a record [head, len]: `head` holds the       *)
(* first bytes explicitly and every byte past it, up to `len`, is the      *)
(* filler byte 0.  A slice (&[u8]) is a byte range [off, len] of the       *)
(* buffer it borrows from, so that Packet.frames are byte ranges of the    *)
(* caller's buffer, as in the source.                                      *)
(*                                                                         *)
(* usize arithmetic.  Rust panics on overflow when built with overflow     *)
(* checks (debug) and wraps modulo 2^64 without them (release); the        *)
(* variable overflow_checks is the build.  A wrapped value 2^64 - k (k     *)
(* small) is written as the negative integer -k; ULe and UAdd compare and  *)
(* add such values as the 64-bit machine does.                             *)
(***************************************************************************)
EXTENDS Integers, Sequences, FiniteSets, TLC

VARIABLES
    buffer,           \* the caller's byte buffer handed to new_with_framing
    self_delimiting,  \* the framing mode argument
    overflow_checks,  \* TRUE: debug build (overflow panics); FALSE: release (wraps)
    pc,               \* "call" before the decoder has run, "done" after
    result,           \* what new_with_framing returned (or that it panicked)
    source,           \* the Ogg packets the PacketReader will deliver, in order
    pos,              \* how many packets OggOpusReader has read from the source
    channel_ok,       \* whether ChannelMapping::new accepts the ID header's mapping
    opc,              \* "call" before OggOpusReader::new has run, "done" after
    opened,           \* what OggOpusReader::new returned (or that it panicked)
    samples,          \* what the last OggOpusReader::read_samples returned
    decoded,          \* how many times read_samples has called the decoder
    packet,           \* the data of a header packet handed to a header parser
    hpc,              \* "call", then "id" or "comment" (parsed), then "iter"
    header,           \* what IdHeader::new or CommentHeader::new returned
    iter,             \* the Comments iterator: comments, comments_num,
                      \* comments_read, pos
    last,             \* what the last Comments::next returned
    yielded           \* how many pairs Comments::next has returned so far

pvars == <<buffer, self_delimiting, overflow_checks, pc, result>>

ovars == <<source, pos, channel_ok, opc, opened, samples, decoded>>

hvars == <<packet, hpc, header, iter, last, yielded>>

vars == <<pvars, ovars, hvars>>

-----------------------------------------------------------------------------
(* Bounds of the checked input space *)

\* longest explicit byte sequence after the TOC (and frame count) byte
MaxHead == 3
\* filler bytes after the explicit bytes: 0..MaxTail, and FRAME_LEN_MAX -+ MaxTail
MaxTail == 2
\* bytes a header packet of the Ogg model may be cut short by or extended by
MaxCut == 2
\* audio packets that follow the two header packets of a stream
MaxAudio == 1
\* user comments stored in a Comment Header
MaxComments == 2

-----------------------------------------------------------------------------
(* Results: Ok(v), Err(e); a panic unwinds through every caller like `?` *)

Ok(v) == [ok |-> TRUE, val |-> v]
Err(e) == [ok |-> FALSE, err |-> e]
Panic == Err("Panic")

-----------------------------------------------------------------------------
(* Buffers and slices *)

BufByte(buf, i) == IF i < Len(buf.head) THEN buf.head[i + 1] ELSE 0

Slice(off, len) == [off |-> off, len |-> len]

\* data[i] for i < data.len()
ByteAt(data, i) == BufByte(buffer, data.off + i)

\* unsigned comparison a <= b of two usize values (negative = wrapped, huge)
ULe(a, b) == IF a < 0 THEN (b < 0 /\ a <= b) ELSE (b < 0 \/ a <= b)

\* a - b on usize
USub(a, b) ==
    IF ULe(b, a) THEN Ok(a - b)
    ELSE IF overflow_checks THEN Panic ELSE Ok(a - b)

\* a + b on usize, a a true small value and b possibly wrapped
UAdd(a, b) ==
    IF b < 0 /\ a + b >= 0
    THEN (IF overflow_checks THEN Panic ELSE Ok(a + b))
    ELSE Ok(a + b)

\* &data[k..] : panics when k > data.len()
Index_from(data, k) ==
    IF ULe(k, data.len) THEN Ok(Slice(data.off + k, data.len - k)) ELSE Panic

\* SliceExt::get_res(a..b), get_res(a..), get_res(i), first_res()
get_res_range(data, a, b) ==
    IF ULe(a, b) /\ ULe(b, data.len)
    THEN Ok(Slice(data.off + a, b - a))
    ELSE Err("UnexpectedEof")

get_res_from(data, a) ==
    IF ULe(a, data.len)
    THEN Ok(Slice(data.off + a, data.len - a))
    ELSE Err("UnexpectedEof")

get_res_at(data, i) ==
    IF i >= 0 /\ i < data.len THEN Ok(ByteAt(data, i)) ELSE Err("UnexpectedEof")

first_res(data) == get_res_at(data, 0)

-----------------------------------------------------------------------------
(* Table of contents byte, frame count byte *)

ConfigNumber(toc) == (toc \div 8) % 32

Mode(config) ==
    IF config <= 11 THEN "Silk" ELSE IF config <= 15 THEN "Hybrid" ELSE "Celt"

Bandwidth(config) ==
    IF config \in (0..3) \cup (16..19) THEN "Narrowband"
    ELSE IF config \in 4..7 THEN "MediumBand"
    ELSE IF config \in (8..11) \cup (20..23) THEN "Wideband"
    ELSE IF config \in {12, 13} \cup (24..27) THEN "SuperWideband"
    ELSE "Fullband"

FrameSize(config) ==
    IF config \in {16, 20, 24, 28} THEN "TwoPointFive"
    ELSE IF config \in {17, 21, 25, 29} THEN "Five"
    ELSE IF config \in {0, 4, 8, 12, 14, 18, 22, 26, 30} THEN "Ten"
    ELSE IF config \in {1, 5, 9, 13, 15, 19, 23, 27, 31} THEN "Twenty"
    ELSE IF config \in {2, 6, 10} THEN "Fourty"
    ELSE "Sixty"

as_microseconds(frame_size) ==
    CASE frame_size = "TwoPointFive" -> 2500
      [] frame_size = "Five" -> 5000
      [] frame_size = "Ten" -> 10000
      [] frame_size = "Twenty" -> 20000
      [] frame_size = "Fourty" -> 40000
      [] frame_size = "Sixty" -> 60000

Config(toc) ==
    [mode |-> Mode(ConfigNumber(toc)),
     bandwidth |-> Bandwidth(ConfigNumber(toc)),
     frame_size |-> FrameSize(ConfigNumber(toc))]

stereo(toc) == (toc \div 4) % 2 # 0

frames_layout(toc) == toc % 4

fc_vbr(fc) == (fc \div 128) % 2 # 0

fc_padding(fc) == (fc \div 64) % 2 # 0

fc_frame_count(fc) == fc % 64

DURATION_MAX == 120000

FRAME_LEN_MAX == 1275

-----------------------------------------------------------------------------
(* Packet: length codes, framing, padding *)

\* length_code as if 252 were still a one-byte length
length_code_one_byte_252(data) ==
    IF data.len = 0 THEN Err("UnexpectedEof")
    ELSE LET first == ByteAt(data, 0) IN
         IF first <= 252 THEN Ok([len |-> first, offset |-> 1])
         ELSE LET second == get_res_at(data, 1) IN
              IF ~second.ok THEN second
              ELSE Ok([len |-> second.val * 4 + first, offset |-> 2])

\* Packet::length_code: (length, bytes consumed)
length_code(data) ==
    IF data.len = 0 THEN Err("UnexpectedEof")
    ELSE LET first == ByteAt(data, 0) IN
         IF first <= 251 THEN Ok([len |-> first, offset |-> 1])
         ELSE LET second == get_res_at(data, 1) IN
              IF ~second.ok THEN second
              ELSE Ok([len |-> second.val * 4 + first, offset |-> 2])

\* Packet::framing; implicit[len] is the closure giving the implicit frame
\* length: Ok(n) for Some(n), Err("None") for None, Panic when it overflows
framing(data, self_delimited, implicit) ==
    IF self_delimited
    THEN LET lc == length_code(data) IN
         IF ~lc.ok THEN lc
         ELSE LET more == get_res_from(data, lc.val.offset + lc.val.len) IN
              IF ~more.ok THEN more
              ELSE Ok([len |-> lc.val.len, offset |-> lc.val.offset,
                       more_data |-> more.val])
    ELSE LET len == implicit[data.len] IN
         IF ~len.ok
         THEN (IF len.err = "None" THEN Err("UnevenFrameLengths") ELSE len)
         ELSE IF ULe(len.val, FRAME_LEN_MAX)
              THEN Ok([len |-> len.val, offset |-> 0, more_data |-> data])
              ELSE Err("OverlongFrame")

RECURSIVE padding_loop(_, _, _)
padding_loop(data, padding, offset) ==
    IF offset < data.len
    THEN LET byte == ByteAt(data, offset) IN
         IF byte = 255
         THEN padding_loop(data, padding + 254, offset + 1)
         ELSE LET more == Index_from(data, offset + 1) IN
              IF ~more.ok THEN more
              ELSE Ok([padding |-> padding + byte, data |-> more.val])
    ELSE Err("UnexpectedEof")

\* Packet::padding as if a continuation byte counted for 255
RECURSIVE padding_loop_255(_, _, _)
padding_loop_255(data, padding, offset) ==
    IF offset < data.len
    THEN LET byte == ByteAt(data, offset) IN
         IF byte = 255
         THEN padding_loop_255(data, padding + 255, offset + 1)
         ELSE LET more == Index_from(data, offset + 1) IN
              IF ~more.ok THEN more
              ELSE Ok([padding |-> padding + byte, data |-> more.val])
    ELSE Err("UnexpectedEof")

padding_adds_255(data) == padding_loop_255(data, 0, 0)

\* Packet::padding: (padding length, where to continue reading)
padding(data) == padding_loop(data, 0, 0)

\* the value a layout decoder returns: (Packet, remaining data)
Decoded(config, st, frames, more_data) ==
    Ok([packet |-> [config |-> config, stereo |-> st, frames |-> frames],
        rest |-> more_data])

-----------------------------------------------------------------------------
(* Packet: the layout decoders for codes 0, 1 and 2 *)

implicit_code_0 == [len \in Nat |-> Ok(len)]

decode_code_0(config, st, sd, data) ==
    LET fr == framing(data, sd, implicit_code_0) IN
    IF ~fr.ok THEN fr
    ELSE LET f1 == get_res_range(data, fr.val.offset, fr.val.offset + fr.val.len) IN
         IF ~f1.ok THEN f1
         ELSE Decoded(config, st, <<f1.val>>, fr.val.more_data)

implicit_code_1 ==
    [len \in Nat |-> IF len % 2 = 0 THEN Ok(len \div 2) ELSE Err("None")]

decode_code_1(config, st, sd, data) ==
    LET fr == framing(data, sd, implicit_code_1) IN
    IF ~fr.ok THEN fr
    ELSE LET d == Index_from(data, fr.val.offset) IN
         IF ~d.ok THEN d
         ELSE LET len == fr.val.len
                  f1 == get_res_range(d.val, 0, len)
                  f2 == get_res_range(d.val, len, len * 2)
              IN IF ~f1.ok THEN f1
                 ELSE IF ~f2.ok THEN f2
                 ELSE Decoded(config, st, <<f1.val, f2.val>>, fr.val.more_data)

decode_code_2(config, st, sd, data) ==
    LET lc == length_code(data) IN
    IF ~lc.ok THEN lc
    ELSE
    LET len1 == lc.val.len
        offset1 == lc.val.offset
        d1 == Index_from(data, offset1)
    IN
    IF ~d1.ok THEN d1
    ELSE
    LET fr == framing(d1.val, sd, [len \in Nat |-> USub(len, len1)]) IN
    IF ~fr.ok THEN fr
    ELSE
    LET len2 == fr.val.len
        d == Index_from(data, offset1 + fr.val.offset)
    IN
    IF ~d.ok THEN d
    ELSE IF len1 <= d.val.len
    THEN LET end == len1 + len2
             f1 == get_res_range(d.val, 0, len1)
             f2 == get_res_range(d.val, len1, end)
             more == Index_from(fr.val.more_data, end)
         IN IF ~f1.ok THEN f1
            ELSE IF ~f2.ok THEN f2
            ELSE IF ~more.ok THEN more
            ELSE Decoded(config, st, <<f1.val, f2.val>>, more.val)
    ELSE IF sd THEN Err("UnexpectedEof")
    ELSE Err("FrameOverflow")

-----------------------------------------------------------------------------
(* Packet: the layout decoder for code 3 *)

\* the scan of decode_code_3_vbr: the frame lengths, and the offset after
\* the length codes
RECURSIVE vbr_lengths(_, _, _, _, _, _, _, _)
vbr_lengths(data, sd, frame_count, pad, i, total_len, offset, lens) ==
    IF i = frame_count THEN Ok([lens |-> lens, offset |-> offset])
    ELSE IF sd \/ i < frame_count - 1
    THEN LET d == Index_from(data, offset) IN
         IF ~d.ok THEN d
         ELSE LET lc == length_code(d.val) IN
              IF ~lc.ok THEN lc
              ELSE vbr_lengths(data, sd, frame_count, pad, i + 1,
                               total_len + lc.val.len, offset + lc.val.offset,
                               Append(lens, lc.val.len))
    ELSE LET a == USub(data.len, total_len) IN
         IF ~a.ok THEN a
         ELSE LET b == USub(a.val, offset) IN
              IF ~b.ok THEN b
              ELSE LET c == USub(b.val, pad) IN
                   IF ~c.ok THEN c
                   ELSE vbr_lengths(data, sd, frame_count, pad, i + 1,
                                    total_len, offset, Append(lens, c.val))

\* the map of decode_code_3_vbr: the frame slices, and the offset after them
RECURSIVE vbr_frames(_, _, _, _, _)
vbr_frames(data, lens, k, offset, frames) ==
    IF k > Len(lens) THEN Ok([frames |-> frames, offset |-> offset])
    ELSE LET new_offset == UAdd(offset, lens[k]) IN
         IF ~new_offset.ok THEN new_offset
         ELSE LET f == get_res_range(data, offset, new_offset.val) IN
              IF ~f.ok THEN f
              ELSE vbr_frames(data, lens, k + 1, new_offset.val,
                              Append(frames, f.val))

\* decode_code_3_vbr as if the padding were not taken off the last frame nor
\* skipped after it
decode_code_3_vbr_ignores_padding(config, st, sd, data, frame_count, pad) ==
    LET ls == vbr_lengths(data, sd, frame_count, 0, 0, 0, 0, <<>>) IN
    IF ~ls.ok THEN ls
    ELSE LET fs == vbr_frames(data, ls.val.lens, 1, ls.val.offset, <<>>) IN
         IF ~fs.ok THEN fs
         ELSE LET more == get_res_from(data, fs.val.offset) IN
              IF ~more.ok THEN more
              ELSE Decoded(config, st, fs.val.frames, more.val)

decode_code_3_vbr(config, st, sd, data, frame_count, pad) ==
    LET ls == vbr_lengths(data, sd, frame_count, pad, 0, 0, 0, <<>>) IN
    IF ~ls.ok THEN ls
    ELSE LET fs == vbr_frames(data, ls.val.lens, 1, ls.val.offset, <<>>) IN
         IF ~fs.ok THEN fs
         ELSE LET more == get_res_from(data, fs.val.offset + pad) IN
              IF ~more.ok THEN more
              ELSE Decoded(config, st, fs.val.frames, more.val)

RECURSIVE cbr_frames(_, _, _, _, _)
cbr_frames(data, len, frame_count, i, frames) ==
    IF i = frame_count THEN Ok(frames)
    ELSE LET f == get_res_range(data, len * i, len * (i + 1)) IN
         IF ~f.ok THEN f
         ELSE cbr_frames(data, len, frame_count, i + 1, Append(frames, f.val))

decode_code_3_cbr(config, st, sd, data, frame_count, pad) ==
    LET lo == IF sd THEN length_code(data)
              ELSE IF data.len % frame_count = 0
                   THEN Ok([len |-> data.len \div frame_count, offset |-> 0])
                   ELSE Err("UnevenFrameLengths")
    IN
    IF ~lo.ok THEN lo
    ELSE LET len == lo.val.len
             d == Index_from(data, lo.val.offset)
         IN
         IF ~d.ok THEN d
         ELSE LET fs == cbr_frames(d.val, len, frame_count, 0, <<>>) IN
              IF ~fs.ok THEN fs
              ELSE LET more == get_res_from(d.val, len * frame_count + pad) IN
                   IF ~more.ok THEN more
                   ELSE Decoded(config, st, fs.val, more.val)

\* decode_code_3 as if the padding were read before the R5 checks
decode_code_3_padding_first(config, st, sd, data) ==
    LET b == first_res(data) IN
    IF ~b.ok THEN b
    ELSE
    LET fc == b.val
        frame_count == fc_frame_count(fc)
        length_us == as_microseconds(config.frame_size)
        d1 == Index_from(data, 1)
        pd == IF ~d1.ok THEN d1
              ELSE IF fc_padding(fc) THEN padding(d1.val)
              ELSE Ok([padding |-> 0, data |-> d1.val])
    IN
    IF ~pd.ok THEN pd
    ELSE IF frame_count = 0 THEN Err("ZeroFrames")
    ELSE IF frame_count * length_us > DURATION_MAX THEN Err("OverlongDuration")
    ELSE IF fc_vbr(fc)
         THEN decode_code_3_vbr(config, st, sd, pd.val.data, frame_count,
                                pd.val.padding)
         ELSE decode_code_3_cbr(config, st, sd, pd.val.data, frame_count,
                                pd.val.padding)

decode_code_3(config, st, sd, data) ==
    LET b == first_res(data) IN
    IF ~b.ok THEN b
    ELSE
    LET fc == b.val
        frame_count == fc_frame_count(fc)
        length_us == as_microseconds(config.frame_size)
    IN
    IF frame_count = 0 THEN Err("ZeroFrames")
    ELSE IF frame_count * length_us > DURATION_MAX THEN Err("OverlongDuration")
    ELSE
    LET d1 == Index_from(data, 1)
        pd == IF ~d1.ok THEN d1
              ELSE IF fc_padding(fc) THEN padding(d1.val)
              ELSE Ok([padding |-> 0, data |-> d1.val])
    IN
    IF ~pd.ok THEN pd
    ELSE IF fc_vbr(fc)
         THEN decode_code_3_vbr(config, st, sd, pd.val.data, frame_count,
                                pd.val.padding)
         ELSE decode_code_3_cbr(config, st, sd, pd.val.data, frame_count,
                                pd.val.padding)

\* Packet::layout_function, applied
layout_function(layout, config, st, sd, data) ==
    CASE layout = 0 -> decode_code_0(config, st, sd, data)
      [] layout = 1 -> decode_code_1(config, st, sd, data)
      [] layout = 2 -> decode_code_2(config, st, sd, data)
      [] layout = 3 -> decode_code_3(config, st, sd, data)

\* Packet::new_with_framing
new_with_framing(data, sd) ==
    LET t == first_res(data) IN
    IF ~t.ok THEN t
    ELSE LET toc == t.val
             body == Index_from(data, 1)
         IN IF ~body.ok THEN body
            ELSE layout_function(frames_layout(toc), Config(toc), stereo(toc),
                                 sd, body.val)

-----------------------------------------------------------------------------
(* The packet decoder as a state machine: one call on one input *)

\* TOC bytes: codes 0..3 at 10 ms (config 0, mono) and code 3 at 60 ms
\* (config 3, stereo)
TocBytes == {0, 1, 2, 3, 31}

\* frame count bytes, besides those among BodyBytes: M in 0..3 with the VBR
\* and padding flags
FrameCountBytes == {64, 65, 67, 129, 130, 193, 194}

\* the other explicit bytes: short lengths (as frame count bytes: CBR, no
\* padding, M in 0..2), the two-byte length code marker 252 and the padding
\* continuation byte 255 (as frame count bytes: VBR, padding, M = 60, 63)
BodyBytes == {0, 1, 2, 252, 255}

RECURSIVE SeqsUpTo(_, _)
SeqsUpTo(S, n) ==
    IF n = 0 THEN {<<>>}
    ELSE LET shorter == SeqsUpTo(S, n - 1) IN
         shorter \cup {Append(s, x) : s \in {t \in shorter : Len(t) = n - 1}, x \in S}

Heads ==
    {<<>>}
    \cup {<<toc>> \o rest : toc \in TocBytes, rest \in SeqsUpTo(BodyBytes, MaxHead)}
    \cup {<<toc, fc>> \o rest : toc \in {t \in TocBytes : frames_layout(t) = 3},
                               fc \in FrameCountBytes,
                               rest \in SeqsUpTo(BodyBytes, MaxHead)}

Tails ==
    (0..MaxTail) \cup ((FRAME_LEN_MAX - MaxTail)..(FRAME_LEN_MAX + MaxTail))

Buffers == {[head |-> h, len |-> Len(h) + t] : h \in Heads, t \in Tails}

Whole(buf) == Slice(0, buf.len)

InitPacket ==
    /\ buffer \in Buffers
    /\ self_delimiting \in BOOLEAN
    /\ overflow_checks \in BOOLEAN
    /\ pc = "call"
    /\ result = [kind |-> "none"]

\* the outcome of the call as the caller sees it
Outcome(r) ==
    IF r.ok THEN [kind |-> "Ok", packet |-> r.val.packet, rest |-> r.val.rest]
    ELSE IF r.err = "Panic" THEN [kind |-> "Panic"]
    ELSE [kind |-> "Err", err |-> r.err]

Decode ==
    /\ pc = "call"
    /\ result' = Outcome(new_with_framing(Whole(buffer), self_delimiting))
    /\ pc' = "done"
    /\ UNCHANGED <<buffer, self_delimiting, overflow_checks>>
    /\ UNCHANGED <<ovars, hvars>>

-----------------------------------------------------------------------------
(* Packet::padding and Packet::length_code, each called alone on a buffer *)

\* bytes at and next to the borders of both encodings
LeafBytes == {0, 1, 251, 252, 254, 255}

LeafBuffers ==
    {[head |-> h, len |-> Len(h) + t] :
        h \in SeqsUpTo(LeafBytes, MaxHead + 1), t \in 0..MaxTail}

InitLeaf ==
    /\ buffer \in LeafBuffers
    /\ self_delimiting = FALSE
    /\ overflow_checks \in BOOLEAN
    /\ pc = "leaf"
    /\ result = [kind |-> "none"]

\* what a leaf function returned: (number, bytes consumed) or an error
OutcomeLeaf(r, n, used) ==
    IF r.ok THEN [kind |-> "Ok", value |-> n, used |-> used]
    ELSE IF r.err = "Panic" THEN [kind |-> "Panic"]
    ELSE [kind |-> "Err", err |-> r.err]

CallPadding ==
    /\ pc = "leaf"
    /\ LET r == padding(Whole(buffer)) IN
       result' = OutcomeLeaf(r, r.val.padding, r.val.data.off)
    /\ pc' = "padding"
    /\ UNCHANGED <<buffer, self_delimiting, overflow_checks>>
    /\ UNCHANGED <<ovars, hvars>>

CallLengthCode ==
    /\ pc = "leaf"
    /\ LET r == length_code(Whole(buffer)) IN
       result' = OutcomeLeaf(r, r.val.len, r.val.offset)
    /\ pc' = "length_code"
    /\ UNCHANGED <<buffer, self_delimiting, overflow_checks>>
    /\ UNCHANGED <<ovars, hvars>>

-----------------------------------------------------------------------------
(* Ogg: the Identification Header and the Comment Header *)

\* the bytes of the range sl of a packet's data
Bytes(data, sl) == [i \in 1..sl.len |-> BufByte(data, sl.off + i - 1)]

\* byteorder::LE::read_u16, read_u32, read_i16
read_u16(b) == b[1] + 256 * b[2]

read_u32(b) == b[1] + 256 * b[2] + 65536 * b[3] + 16777216 * b[4]

read_i16(b) == IF read_u16(b) >= 32768 THEN read_u16(b) - 65536 ELSE read_u16(b)

\* b"OpusHead"
IdHeader_MAGIC == <<79, 112, 117, 115, 72, 101, 97, 100>>

\* b"OpusTags"
CommentHeader_MAGIC == <<79, 112, 117, 115, 84, 97, 103, 115>>

PACKET_LEN_MAX == 125829120

COMMENTS_IGNORE_LEN == 61440

\* version & VERSION_MAJOR_MASK (0b1111_0000)
version_major_bits(version) == version - (version % 16)

\* ChannelMapping::new(channel count, mapping family, mapping table): the
\* channel module decides; channel_ok is its verdict
ChannelMapping_new(count, family, table) ==
    IF channel_ok
    THEN Ok([count |-> count, family |-> family, table |-> table])
    ELSE Err("ChannelMapping")

\* IdHeader::new as if only version byte 1 were supported
IdHeader_new_version_1_only(data) ==
    LET d == Whole(data)
        magic == get_res_range(d, 0, 8)
    IN
    IF ~magic.ok THEN magic
    ELSE IF Bytes(data, magic.val) = IdHeader_MAGIC
    THEN LET version == get_res_range(d, 8, 9) IN
         IF ~version.ok THEN version
         ELSE IF BufByte(data, 8) = 1
         THEN LET count == get_res_range(d, 9, 10)
                  family == get_res_range(d, 18, 19)
                  table == get_res_from(d, 19)
                  channels == ChannelMapping_new(BufByte(data, 9),
                                                 BufByte(data, 18), table.val)
                  pre_skip == get_res_range(d, 10, 12)
                  sample_rate == get_res_range(d, 12, 16)
                  output_gain == get_res_range(d, 15, 17)
              IN IF ~count.ok THEN count
                 ELSE IF ~family.ok THEN family
                 ELSE IF ~table.ok THEN table
                 ELSE IF ~channels.ok THEN channels
                 ELSE IF ~pre_skip.ok THEN pre_skip
                 ELSE IF ~sample_rate.ok THEN sample_rate
                 ELSE IF ~output_gain.ok THEN output_gain
                 ELSE Ok([version |-> BufByte(data, 8),
                          channels |-> channels.val,
                          pre_skip |-> read_u16(Bytes(data, pre_skip.val)),
                          sample_rate |-> read_u32(Bytes(data, sample_rate.val)),
                          output_gain |-> read_i16(Bytes(data, output_gain.val))])
         ELSE Err("UnsupportedVersion")
    ELSE Err("BadMagic")

\* IdHeader::new
IdHeader_new(data) ==
    LET d == Whole(data)
        magic == get_res_range(d, 0, 8)
    IN
    IF ~magic.ok THEN magic
    ELSE IF Bytes(data, magic.val) = IdHeader_MAGIC
    THEN LET version == get_res_range(d, 8, 9) IN
         IF ~version.ok THEN version
         ELSE IF version_major_bits(BufByte(data, 8)) = 0
         THEN LET count == get_res_range(d, 9, 10)
                  family == get_res_range(d, 18, 19)
                  table == get_res_from(d, 19)
                  channels == ChannelMapping_new(BufByte(data, 9),
                                                 BufByte(data, 18), table.val)
                  pre_skip == get_res_range(d, 10, 12)
                  sample_rate == get_res_range(d, 12, 16)
                  output_gain == get_res_range(d, 15, 17)
              IN IF ~count.ok THEN count
                 ELSE IF ~family.ok THEN family
                 ELSE IF ~table.ok THEN table
                 ELSE IF ~channels.ok THEN channels
                 ELSE IF ~pre_skip.ok THEN pre_skip
                 ELSE IF ~sample_rate.ok THEN sample_rate
                 ELSE IF ~output_gain.ok THEN output_gain
                 ELSE Ok([version |-> BufByte(data, 8),
                          channels |-> channels.val,
                          pre_skip |-> read_u16(Bytes(data, pre_skip.val)),
                          sample_rate |-> read_u32(Bytes(data, sample_rate.val)),
                          output_gain |-> read_i16(Bytes(data, output_gain.val))])
         ELSE Err("UnsupportedVersion")
    ELSE Err("BadMagic")

\* IdHeader::version: (major, minor)
IdHeader_version(h) == <<h.version \div 16, h.version % 16>>

\* CommentHeader::new as if the magic number were compared before the
\* length of the packet were looked at
CommentHeader_new_magic_first(data) ==
    LET d == Whole(data)
        magic == get_res_range(d, 0, 8)
    IN
    IF ~magic.ok THEN magic
    ELSE IF Bytes(data, magic.val) = CommentHeader_MAGIC
    THEN IF data.len > PACKET_LEN_MAX THEN Err("DenialOfService")
         ELSE
         LET vendor_len == get_res_range(d, 8, 12) IN
         IF ~vendor_len.ok THEN vendor_len
         ELSE
         LET comments_start == 12 + read_u32(Bytes(data, vendor_len.val))
             vendor == get_res_range(d, 12, comments_start)
             num_comments == get_res_range(d, comments_start, comments_start + 4)
         IN
         IF ~vendor.ok THEN vendor
         ELSE IF ~num_comments.ok THEN num_comments
         ELSE
         LET comments ==
                 IF data.len <= COMMENTS_IGNORE_LEN
                 THEN Index_from(d, comments_start + 4)
                 ELSE IF comments_start + 4 <= COMMENTS_IGNORE_LEN
                      THEN Ok(Slice(comments_start + 4,
                                    COMMENTS_IGNORE_LEN - (comments_start + 4)))
                      ELSE Panic
         IN
         IF ~comments.ok THEN comments
         ELSE Ok([comments |-> comments.val,
                  comments_num |-> read_u32(Bytes(data, num_comments.val)),
                  vendor |-> vendor.val])
    ELSE Err("BadMagic")

\* CommentHeader::new; comments and vendor are byte ranges of the packet
CommentHeader_new(data) ==
    LET d == Whole(data) IN
    IF data.len > PACKET_LEN_MAX THEN Err("DenialOfService")
    ELSE
    LET magic == get_res_range(d, 0, 8) IN
    IF ~magic.ok THEN magic
    ELSE IF Bytes(data, magic.val) = CommentHeader_MAGIC
    THEN LET vendor_len == get_res_range(d, 8, 12) IN
         IF ~vendor_len.ok THEN vendor_len
         ELSE
         LET comments_start == 12 + read_u32(Bytes(data, vendor_len.val))
             vendor == get_res_range(d, 12, comments_start)
             num_comments == get_res_range(d, comments_start, comments_start + 4)
         IN
         IF ~vendor.ok THEN vendor
         ELSE IF ~num_comments.ok THEN num_comments
         ELSE
         LET comments ==
                 IF data.len <= COMMENTS_IGNORE_LEN
                 THEN Index_from(d, comments_start + 4)
                 ELSE IF comments_start + 4 <= COMMENTS_IGNORE_LEN
                      THEN Ok(Slice(comments_start + 4,
                                    COMMENTS_IGNORE_LEN - (comments_start + 4)))
                      ELSE Panic
         IN
         IF ~comments.ok THEN comments
         ELSE Ok([comments |-> comments.val,
                  comments_num |-> read_u32(Bytes(data, num_comments.val)),
                  vendor |-> vendor.val])
    ELSE Err("BadMagic")

-----------------------------------------------------------------------------
(* Ogg: OggOpusReader::new *)

\* PacketReader::read_packet_expected on the n-th packet of the source
read_packet_expected(n) ==
    IF n <= Len(source) THEN Ok(source[n]) ELSE Err("OggReadError")

\* OggOpusReader::new as if the ID header were parsed before its paging
\* were looked at
OggOpusReader_new_parses_first ==
    LET id_packet == read_packet_expected(1) IN
    IF ~id_packet.ok THEN [ret |-> id_packet, read |-> 0]
    ELSE
    LET parsed == IdHeader_new(id_packet.val.data)
        id_header ==
            IF ~parsed.ok THEN parsed
            ELSE IF /\ id_packet.val.first_in_stream
                    /\ id_packet.val.first_in_page
                    /\ id_packet.val.last_in_page
            THEN parsed
            ELSE Err("BadPaging")
    IN
    IF ~id_header.ok THEN [ret |-> id_header, read |-> 1]
    ELSE
    LET comments_packet == read_packet_expected(2) IN
    IF ~comments_packet.ok THEN [ret |-> comments_packet, read |-> 1]
    ELSE
    LET comments ==
            IF id_packet.val.first_in_page /\ id_packet.val.last_in_page
            THEN CommentHeader_new(comments_packet.val.data)
            ELSE Err("BadPaging")
    IN
    IF ~comments.ok THEN [ret |-> comments, read |-> 2]
    ELSE [ret |-> Ok([comments |-> comments.val, id_header |-> id_header.val]),
          read |-> 2]

\* OggOpusReader::new: the value returned, and the packets read on the way
OggOpusReader_new ==
    LET id_packet == read_packet_expected(1) IN
    IF ~id_packet.ok THEN [ret |-> id_packet, read |-> 0]
    ELSE
    LET id_header ==
            IF /\ id_packet.val.first_in_stream
               /\ id_packet.val.first_in_page
               /\ id_packet.val.last_in_page
            THEN IdHeader_new(id_packet.val.data)
            ELSE Err("BadPaging")
    IN
    IF ~id_header.ok THEN [ret |-> id_header, read |-> 1]
    ELSE
    LET comments_packet == read_packet_expected(2) IN
    IF ~comments_packet.ok THEN [ret |-> comments_packet, read |-> 1]
    ELSE
    LET comments ==
            IF id_packet.val.first_in_page /\ id_packet.val.last_in_page
            THEN CommentHeader_new(comments_packet.val.data)
            ELSE Err("BadPaging")
    IN
    IF ~comments.ok THEN [ret |-> comments, read |-> 2]
    ELSE [ret |-> Ok([comments |-> comments.val, id_header |-> id_header.val]),
          read |-> 2]

LE16(n) == <<n % 256, n \div 256>>

LE32(n) == <<n % 256, (n \div 256) % 256, (n \div 65536) % 256, n \div 16777216>>

\* a well-formed 19-byte Identification Header (mapping family 0, mono)
IdBytes(magic, version, pre_skip, rate, gain) ==
    magic \o <<version, 1>> \o LE16(pre_skip) \o LE32(rate) \o LE16(gain) \o <<0>>

\* a Comment Header with an empty vendor string and no comments
TagBytes(magic) == magic \o LE32(0) \o LE32(0)

\* the header h cut short by up to MaxCut bytes or followed by up to
\* MaxCut filler bytes
Variants(h) ==
    {[head |-> SubSeq(h, 1, Len(h) - c), len |-> Len(h) - c] : c \in 0..MaxCut}
    \cup {[head |-> h, len |-> Len(h) + e] : e \in 1..MaxCut}

IdData ==
    UNION {Variants(IdBytes(m, v, 312, 48000, 256)) :
              m \in {IdHeader_MAGIC, CommentHeader_MAGIC}, v \in {1, 33}}
    \cup {[head |-> SubSeq(IdHeader_MAGIC, 1, n), len |-> n] : n \in {0, 8}}

TagData ==
    UNION {Variants(TagBytes(m)) : m \in {IdHeader_MAGIC, CommentHeader_MAGIC}}
    \cup {[head |-> TagBytes(CommentHeader_MAGIC), len |-> n] :
             n \in {COMMENTS_IGNORE_LEN + 1, PACKET_LEN_MAX, PACKET_LEN_MAX + 1}}

OggPacket(data, fs, fp, lp) ==
    [data |-> data, first_in_stream |-> fs, first_in_page |-> fp, last_in_page |-> lp]

IdPackets ==
    {OggPacket(d, fs, fp, lp) : d \in IdData, fs \in BOOLEAN, fp \in BOOLEAN,
                                lp \in BOOLEAN}

TagPackets ==
    {OggPacket(d, FALSE, fp, lp) : d \in TagData, fp \in BOOLEAN, lp \in BOOLEAN}

\* an audio packet: one code 0 frame without payload
AudioPacket == OggPacket([head |-> <<0>>, len |-> 1], FALSE, TRUE, TRUE)

Sources ==
    {<<>>} \cup {<<p>> : p \in IdPackets}
    \cup {<<p, q>> \o [i \in 1..n |-> AudioPacket] :
             p \in IdPackets, q \in TagPackets, n \in 0..MaxAudio}

InitOgg ==
    /\ source \in Sources
    /\ channel_ok \in BOOLEAN
    /\ pos = 0
    /\ opc = "call"
    /\ opened = [kind |-> "none"]
    /\ samples = [kind |-> "none"]
    /\ decoded = 0

OutcomeOpen(r) ==
    IF r.ok THEN [kind |-> "Ok", reader |-> r.val]
    ELSE IF r.err = "Panic" THEN [kind |-> "Panic"]
    ELSE [kind |-> "Err", err |-> r.err]

Open ==
    /\ opc = "call"
    /\ opened' = OutcomeOpen(OggOpusReader_new.ret)
    /\ pos' = OggOpusReader_new.read
    /\ opc' = "done"
    /\ UNCHANGED <<source, channel_ok, samples, decoded>>
    /\ UNCHANGED <<pvars, hvars>>

-----------------------------------------------------------------------------
(* Ogg: OggOpusReader::read_samples *)

\* the item of an Option that is None, and of one that holds a pair
None == [kind |-> "None"]

Some(name, value) == [kind |-> "Some", name |-> name, value |-> value]

\* PacketReader::read_packet when n - 1 packets have been read: the next
\* packet, or None at the end of the stream
read_packet(n) ==
    IF n <= Len(source) THEN Ok([kind |-> "Some", packet |-> source[n]])
    ELSE Ok(None)

\* what Multipacket::new can return for a packet
Multipacket_new == {Ok("Multipacket"), Err("MalformedPacket")}

\* sample counts the decoder can report for one packet (a packet holds at
\* least one frame of 2.5 ms or more: 120 samples at 48 kHz; 960 for 20 ms)
SampleCounts == {120, 960}

\* what Decoder::decode can return, or that it panicked
Decoder_decode == {Ok(n) : n \in SampleCounts} \cup {Err("DecoderError"), Panic}

OutcomeSamples(r) ==
    IF r.ok THEN [kind |-> "Ok", value |-> r.val]
    ELSE IF r.err = "Panic" THEN [kind |-> "Panic"]
    ELSE [kind |-> "Err", err |-> r.err]

\* OggOpusReader::read_samples as if the decoder were asked to conceal a
\* lost packet when the source has none left
ReadSamples_conceals_at_end ==
    /\ opc = "done"
    /\ opened.kind = "Ok"
    /\ samples.kind # "Panic"
    /\ LET ogg_packet == read_packet(pos + 1) IN
       IF ogg_packet.val.kind = "Some"
       THEN /\ pos' = pos + 1
            /\ \E multipacket \in Multipacket_new :
                  IF multipacket.ok
                  THEN /\ decoded' = decoded + 1
                       /\ \E r \in Decoder_decode : samples' = OutcomeSamples(r)
                  ELSE /\ decoded' = decoded
                       /\ samples' = OutcomeSamples(multipacket)
       ELSE /\ decoded <= MaxAudio
            /\ pos' = pos
            /\ decoded' = decoded + 1
            /\ \E r \in Decoder_decode : samples' = OutcomeSamples(r)
    /\ UNCHANGED <<source, channel_ok, opc, opened>>
    /\ UNCHANGED <<pvars, hvars>>

\* OggOpusReader::read_samples on an opened reader
ReadSamples ==
    /\ opc = "done"
    /\ opened.kind = "Ok"
    /\ samples.kind # "Panic"
    /\ LET ogg_packet == read_packet(pos + 1) IN
       IF ogg_packet.val.kind = "Some"
       THEN /\ pos' = pos + 1
            /\ \E multipacket \in Multipacket_new :
                  IF multipacket.ok
                  THEN /\ decoded' = decoded + 1
                       /\ \E r \in Decoder_decode : samples' = OutcomeSamples(r)
                  ELSE /\ decoded' = decoded
                       /\ samples' = OutcomeSamples(multipacket)
       ELSE /\ pos' = pos
            /\ decoded' = decoded
            /\ samples' = OutcomeSamples(Ok(0))
    /\ UNCHANGED <<source, channel_ok, opc, opened>>
    /\ UNCHANGED <<pvars, hvars>>

-----------------------------------------------------------------------------
(* Ogg: the Comments iterator *)

\* std::str::from_utf8(b).is_ok(), from byte i of b on
RECURSIVE utf8_from(_, _)
utf8_from(b, i) ==
    LET cont(j) == j <= Len(b) /\ b[j] >= 128 /\ b[j] <= 191
        second(lo, hi) == i + 1 <= Len(b) /\ b[i + 1] >= lo /\ b[i + 1] <= hi
    IN
    IF i > Len(b) THEN TRUE
    ELSE IF b[i] < 128 THEN utf8_from(b, i + 1)
    ELSE IF b[i] >= 194 /\ b[i] <= 223
    THEN cont(i + 1) /\ utf8_from(b, i + 2)
    ELSE IF b[i] >= 224 /\ b[i] <= 239
    THEN /\ second(IF b[i] = 224 THEN 160 ELSE 128, IF b[i] = 237 THEN 159 ELSE 191)
         /\ cont(i + 2)
         /\ utf8_from(b, i + 3)
    ELSE IF b[i] >= 240 /\ b[i] <= 244
    THEN /\ second(IF b[i] = 240 THEN 144 ELSE 128, IF b[i] = 244 THEN 143 ELSE 191)
         /\ cont(i + 2)
         /\ cont(i + 3)
         /\ utf8_from(b, i + 4)
    ELSE FALSE

from_utf8_ok(b) == utf8_from(b, 1)

\* cmt.find('='): the 1-based index of the first '=' of b, or 0 for None
find_eq(b) ==
    IF \E i \in 1..Len(b) : b[i] = 61
    THEN CHOOSE i \in 1..Len(b) : b[i] = 61 /\ \A j \in 1..(i - 1) : b[j] # 61
    ELSE 0

\* CommentHeader::comments: an iterator over the comments of header h
CommentHeader_comments(h) ==
    [comments |-> h.comments, comments_num |-> h.comments_num,
     comments_read |-> 0, pos |-> 0]

\* Comments::next as if the bookkeeping were done after the comment is
\* parsed, so that a malformed comment leaves the iterator where it was
Comments_next_bookkeeping_last(it, data) ==
    IF it.pos < it.comments.len /\ it.comments_read < it.comments_num
    THEN LET cmt_start == it.pos + 4 IN
         IF cmt_start > it.comments.len THEN [it |-> it, item |-> None]
         ELSE
         LET cmt_len == read_u32(Bytes(data, Slice(it.comments.off + it.pos, 4)))
             moved == [it EXCEPT !.pos = cmt_start + cmt_len,
                                 !.comments_read = it.comments_read + 1]
         IN
         IF moved.pos > it.comments.len THEN [it |-> it, item |-> None]
         ELSE
         LET cmt == Bytes(data, Slice(it.comments.off + cmt_start, cmt_len))
             eq == find_eq(cmt)
         IN
         IF ~from_utf8_ok(cmt) THEN [it |-> it, item |-> None]
         ELSE IF eq = 0 THEN [it |-> it, item |-> None]
         ELSE [it |-> moved,
               item |-> Some(SubSeq(cmt, 1, eq - 1), SubSeq(cmt, eq + 1, Len(cmt)))]
    ELSE [it |-> it, item |-> None]

\* Comments::next as if the declared comment count were not looked at
Comments_next_ignores_count(it, data) ==
    IF it.pos < it.comments.len
    THEN LET cmt_start == it.pos + 4 IN
         IF cmt_start > it.comments.len THEN [it |-> it, item |-> None]
         ELSE
         LET cmt_len == read_u32(Bytes(data, Slice(it.comments.off + it.pos, 4)))
             moved == [it EXCEPT !.pos = cmt_start + cmt_len,
                                 !.comments_read = it.comments_read + 1]
         IN
         IF moved.pos > it.comments.len THEN [it |-> moved, item |-> None]
         ELSE
         LET cmt == Bytes(data, Slice(it.comments.off + cmt_start, cmt_len))
             eq == find_eq(cmt)
         IN
         IF ~from_utf8_ok(cmt) THEN [it |-> moved, item |-> None]
         ELSE IF eq = 0 THEN [it |-> moved, item |-> None]
         ELSE [it |-> moved,
               item |-> Some(SubSeq(cmt, 1, eq - 1), SubSeq(cmt, eq + 1, Len(cmt)))]
    ELSE [it |-> it, item |-> None]

\* Comments::next on the iterator it, whose bytes are a range of data: the
\* iterator afterwards and the item returned
Comments_next(it, data) ==
    IF it.pos < it.comments.len /\ it.comments_read < it.comments_num
    THEN LET cmt_start == it.pos + 4 IN
         IF cmt_start > it.comments.len THEN [it |-> it, item |-> None]
         ELSE
         LET cmt_len == read_u32(Bytes(data, Slice(it.comments.off + it.pos, 4)))
             moved == [it EXCEPT !.pos = cmt_start + cmt_len,
                                 !.comments_read = it.comments_read + 1]
         IN
         IF moved.pos > it.comments.len THEN [it |-> moved, item |-> None]
         ELSE
         LET cmt == Bytes(data, Slice(it.comments.off + cmt_start, cmt_len))
             eq == find_eq(cmt)
         IN
         IF ~from_utf8_ok(cmt) THEN [it |-> moved, item |-> None]
         ELSE IF eq = 0 THEN [it |-> moved, item |-> None]
         ELSE [it |-> moved,
               item |-> Some(SubSeq(cmt, 1, eq - 1), SubSeq(cmt, eq + 1, Len(cmt)))]
    ELSE [it |-> it, item |-> None]

\* Comments::size_hint: the upper bound
Comments_size_hint(it) == it.comments_num - it.comments_read

-----------------------------------------------------------------------------
(* The header parsers and the Comments iterator as a state machine: one
   header packet, parsed once, its comments then iterated *)

\* version bytes: every minor version of major 0, and some other majors
VersionBytes == (0..15) \cup {16, 33, 255}

\* sample rates that differ in their last (most significant) byte only
SampleRates == {48000, 48000 + 16777216}

\* output gains (as the u16 stored): 0, +1 dB (Q7.8), -1 dB (Q7.8)
OutputGains == {0, 256, 65280}

HdrIdData ==
    UNION {Variants(IdBytes(m, v, 312, r, g)) :
              m \in {IdHeader_MAGIC, CommentHeader_MAGIC}, v \in VersionBytes,
              r \in SampleRates, g \in OutputGains}

\* one stored comment: its length prefix, then its bytes
Entry(cmt) == LE32(Len(cmt)) \o cmt

\* "TITLE=Song"
TitleSong == <<84, 73, 84, 76, 69, 61, 83, 111, 110, 103>>

\* stored comments: well-formed ones ("TITLE=Song", "e-acute=1", "="), one
\* that is not UTF-8, one without '=', and one whose prefix declares more
\* bytes than follow it
Entries ==
    {Entry(TitleSong), Entry(<<195, 169, 61, 49>>), Entry(<<61>>),
     Entry(<<255, 61, 65>>), Entry(<<65, 66>>), LE32(200) \o <<65, 61, 66>>}

RECURSIVE EntryLists(_)
EntryLists(n) ==
    IF n = 0 THEN {<<>>}
    ELSE EntryLists(n - 1)
         \cup {l \o e : l \in EntryLists(n - 1), e \in Entries}

\* a Comment Header with an empty vendor string, a declared comment count
\* and comment data
TagBytesWith(count, cmts) == CommentHeader_MAGIC \o LE32(0) \o LE32(count) \o cmts

\* the header h, or h less up to MaxCut of its last bytes
Cuts(h) ==
    {[head |-> SubSeq(h, 1, Len(h) - c), len |-> Len(h) - c] :
        c \in 0..(IF MaxCut < Len(h) THEN MaxCut ELSE Len(h))}

\* a Comment Header whose vendor string is vendor_len filler bytes, followed
\* by a comment count of 0 and extra filler bytes
LongVendor(vendor_len, extra) ==
    [head |-> CommentHeader_MAGIC \o LE32(vendor_len),
     len |-> 12 + vendor_len + 4 + extra]

HdrTagData ==
    TagData
    \cup UNION {Cuts(TagBytesWith(n, l)) :
                   n \in 0..(MaxComments + 1), l \in EntryLists(MaxComments)}
    \cup {LongVendor(COMMENTS_IGNORE_LEN - 16 + d, e) :
             d \in (0 - MaxCut)..MaxCut, e \in 0..MaxCut}
    \cup {[head |-> <<>>, len |-> n] :
             n \in {COMMENTS_IGNORE_LEN + 1, PACKET_LEN_MAX, PACKET_LEN_MAX + 1}}

InitHdr ==
    /\ packet \in HdrIdData \cup HdrTagData
    /\ hpc = "call"
    /\ header = [kind |-> "none"]
    /\ iter = [kind |-> "none"]
    /\ last = [kind |-> "none"]
    /\ yielded = 0

OutcomeHdr(r) ==
    IF r.ok THEN [kind |-> "Ok", val |-> r.val]
    ELSE IF r.err = "Panic" THEN [kind |-> "Panic"]
    ELSE [kind |-> "Err", err |-> r.err]

\* IdHeader::new(packet)
CallIdHeaderNew ==
    /\ hpc = "call"
    /\ header' = OutcomeHdr(IdHeader_new(packet))
    /\ hpc' = "id"
    /\ UNCHANGED <<packet, iter, last, yielded>>
    /\ UNCHANGED <<pvars, ovars>>

\* CommentHeader::new(packet)
CallCommentHeaderNew ==
    /\ hpc = "call"
    /\ header' = OutcomeHdr(CommentHeader_new(packet))
    /\ hpc' = "comment"
    /\ UNCHANGED <<packet, iter, last, yielded>>
    /\ UNCHANGED <<pvars, ovars>>

\* CommentHeader::comments() on the header parsed
CallComments ==
    /\ hpc = "comment"
    /\ header.kind = "Ok"
    /\ iter' = CommentHeader_comments(header.val)
    /\ hpc' = "iter"
    /\ UNCHANGED <<packet, header, last, yielded>>
    /\ UNCHANGED <<pvars, ovars>>

\* Comments::next() on the iterator
CallNext ==
    /\ hpc = "iter"
    /\ LET r == Comments_next(iter, packet) IN
       /\ iter' = r.it
       /\ last' = r.item
       /\ yielded' = IF r.item.kind = "Some" THEN yielded + 1 ELSE yielded
    /\ UNCHANGED <<packet, hpc, header>>
    /\ UNCHANGED <<pvars, ovars>>

-----------------------------------------------------------------------------
(* Specifications *)

\* the packet decoder alone: no Ogg stream is opened
IdlePacket ==
    /\ buffer = [head |-> <<>>, len |-> 0]
    /\ self_delimiting = FALSE
    /\ overflow_checks = FALSE
    /\ pc = "idle"
    /\ result = [kind |-> "none"]

IdleOgg ==
    /\ source = <<>>
    /\ channel_ok = FALSE
    /\ pos = 0
    /\ opc = "idle"
    /\ opened = [kind |-> "none"]
    /\ samples = [kind |-> "none"]
    /\ decoded = 0

IdleHdr ==
    /\ packet = [head |-> <<>>, len |-> 0]
    /\ hpc = "idle"
    /\ header = [kind |-> "none"]
    /\ iter = [kind |-> "none"]
    /\ last = [kind |-> "none"]
    /\ yielded = 0

Init == InitPacket /\ IdleOgg /\ IdleHdr

Next == Decode

Spec == Init /\ [][Next]_vars

InitL == InitLeaf /\ IdleOgg /\ IdleHdr

NextL == CallPadding \/ CallLengthCode

SpecLeaf == InitL /\ [][NextL]_vars

InitO == IdlePacket /\ InitOgg /\ IdleHdr

NextO == Open \/ ReadSamples

\* the header parsers and the Comments iterator alone
InitH ==
    /\ IdlePacket
    /\ source = <<>>
    /\ channel_ok \in BOOLEAN
    /\ pos = 0
    /\ opc = "idle"
    /\ opened = [kind |-> "none"]
    /\ samples = [kind |-> "none"]
    /\ decoded = 0
    /\ InitHdr

NextH == CallIdHeaderNew \/ CallCommentHeaderNew \/ CallComments \/ CallNext

SpecHdr == InitH /\ [][NextH]_vars

SpecOgg == InitO /\ [][NextO]_vars

-----------------------------------------------------------------------------
(* What the claims speak of, read off the input buffer *)

Done == pc = "done"

Toc == BufByte(buffer, 0)

\* the payload: the bytes after the TOC byte
PayloadLen == buffer.len - 1

IsErr(r, e) == r.kind = "Err" /\ r.err = e

Frames == result.packet.frames

RECURSIVE SumSeq(_)
SumSeq(s) == IF s = <<>> THEN 0 ELSE Head(s) + SumSeq(Tail(s))

\* frames lie one after the other, the first at byte `start` of the buffer
Contiguous(frames, start) ==
    \A i \in 1..Len(frames) :
        frames[i].off = start + SumSeq([j \in 1..(i - 1) |-> frames[j].len])

\* the length code stored at byte p of the buffer, read as RFC 6716 3.2.1 has it
CodedAt(p) ==
    IF BufByte(buffer, p) <= 251
    THEN [len |-> BufByte(buffer, p), size |-> 1]
    ELSE [len |-> BufByte(buffer, p + 1) * 4 + BufByte(buffer, p), size |-> 2]

\* k consecutive length codes from byte p on: their values and their bytes
RECURSIVE CodedLengths(_, _)
CodedLengths(p, k) ==
    IF k = 0 THEN [lens |-> <<>>, bytes |-> 0]
    ELSE LET c == CodedAt(p)
             more == CodedLengths(p + c.size, k - 1)
         IN [lens |-> <<c.len>> \o more.lens, bytes |-> c.size + more.bytes]

\* the padding-size bytes from byte p on: n bytes of 255 and a last byte k
RECURSIVE PaddingSize(_)
PaddingSize(p) ==
    IF BufByte(buffer, p) = 255 /\ p < buffer.len
    THEN LET more == PaddingSize(p + 1) IN
         [pad |-> 254 + more.pad, bytes |-> 1 + more.bytes]
    ELSE [pad |-> BufByte(buffer, p), bytes |-> 1]

\* code 3: the frame count byte and what follows it
Code3 == buffer.len >= 2 /\ frames_layout(Toc) = 3

FcByte == BufByte(buffer, 1)

M == FcByte % 64

PadInfo == IF fc_padding(FcByte) THEN PaddingSize(2) ELSE [pad |-> 0, bytes |-> 0]

\* the frame duration of the TOC byte in tenths of a millisecond
DurationTenthsMs ==
    LET fs == Config(Toc).frame_size IN
    CASE fs = "TwoPointFive" -> 25 [] fs = "Five" -> 50 [] fs = "Ten" -> 100
      [] fs = "Twenty" -> 200 [] fs = "Fourty" -> 400 [] fs = "Sixty" -> 600

-----------------------------------------------------------------------------
(* C1 *)

\* C1: for every byte sequence and both framing modes, new_with_framing
\* returns a Packet with a remainder or a typed error: it never panics,
\* never indexes outside the data, never underflows a length subtraction.
C1_NeverPanics == Done => result.kind \in {"Ok", "Err"}

-----------------------------------------------------------------------------
(* C2 *)

\* C2: whenever new_with_framing returns a Packet, every frame of it is
\* between 0 and 1275 bytes long.
C2_FramesWithinLimit ==
    (Done /\ result.kind = "Ok") =>
        \A i \in 1..Len(Frames) : Frames[i].len >= 0 /\ Frames[i].len <= 1275

-----------------------------------------------------------------------------
(* C3 *)

\* the length code of n (RFC 6716 3.2.1)
EncodeLen(n) ==
    IF n <= 251 THEN <<n>>
    ELSE <<252 + ((n - 252) % 4), (n - 252 - ((n - 252) % 4)) \div 4>>

RoundTripLens == UNION {[1..k -> 0..MaxTail] : k \in 1..3}

RoundTripCases ==
    {c \in [layout : {"code0", "code1", "code2", "vbr", "cbr"},
            sd : BOOLEAN, lens : RoundTripLens] :
        /\ c.layout = "code0" => Len(c.lens) = 1
        /\ c.layout = "code1" => Len(c.lens) = 2 /\ c.lens[1] = c.lens[2]
        /\ c.layout = "code2" => Len(c.lens) = 2 /\ c.lens[1] # c.lens[2]
        /\ c.layout = "cbr" => \A i \in 1..Len(c.lens) : c.lens[i] = c.lens[1]}

RECURSIVE EncodeLens(_, _)
EncodeLens(lens, k) ==
    IF k = 0 THEN <<>> ELSE EncodeLens(lens, k - 1) \o EncodeLen(lens[k])

\* the bytes before the first frame of the synthetic packet c
EncodeHeader(c) ==
    LET n == Len(c.lens) IN
    CASE c.layout = "code0" -> <<0>> \o (IF c.sd THEN EncodeLen(c.lens[1]) ELSE <<>>)
      [] c.layout = "code1" -> <<1>> \o (IF c.sd THEN EncodeLen(c.lens[1]) ELSE <<>>)
      [] c.layout = "code2" -> <<2>> \o EncodeLens(c.lens, IF c.sd THEN 2 ELSE 1)
      [] c.layout = "vbr" -> <<3, 128 + n>> \o EncodeLens(c.lens, IF c.sd THEN n ELSE n - 1)
      [] c.layout = "cbr" -> <<3, n>> \o (IF c.sd THEN EncodeLen(c.lens[1]) ELSE <<>>)

\* the synthetic packet c: its header, then its frames (of filler bytes)
Encode(c) ==
    [head |-> EncodeHeader(c), len |-> Len(EncodeHeader(c)) + SumSeq(c.lens)]

\* C3: a synthetic packet built from a known list of frames, decoded in the
\* framing mode it was encoded for, yields exactly those frames, in order
\* and at their byte ranges, and an empty remainder.
C3_RoundTrip ==
    Done =>
        \A c \in RoundTripCases :
            (buffer = Encode(c) /\ self_delimiting = c.sd) =>
                /\ result.kind = "Ok"
                /\ Len(Frames) = Len(c.lens)
                /\ \A i \in 1..Len(c.lens) : Frames[i].len = c.lens[i]
                /\ Contiguous(Frames, Len(EncodeHeader(c)))
                /\ result.rest.len = 0

-----------------------------------------------------------------------------
(* C4 *)

\* C4: a code 0 packet decoded with implicit framing whose payload has
\* n <= 1275 bytes yields one frame of all n payload bytes and a remaining
\* buffer of length zero.
C4_Code0Implicit ==
    (/\ Done
     /\ ~self_delimiting
     /\ buffer.len >= 1
     /\ frames_layout(Toc) = 0
     /\ PayloadLen <= 1275) =>
        /\ result.kind = "Ok"
        /\ Frames = <<Slice(1, PayloadLen)>>
        /\ result.rest.len = 0

-----------------------------------------------------------------------------
(* C5 *)

\* C5: a code 2 packet whose first frame's declared length exceeds the
\* bytes available after the length code(s) fails with FrameOverflow when
\* framing is implicit and with UnexpectedEof when it is self-delimited.
C5_Code2FirstFrameTooLong ==
    (/\ Done
     /\ buffer.len >= 2
     /\ frames_layout(Toc) = 2
     /\ CodedLengths(1, 1).bytes <= PayloadLen) =>
        LET len1 == CodedAt(1).len
            two == CodedLengths(1, 2)
        IN /\ (~self_delimiting /\ len1 > PayloadLen - CodedAt(1).size)
                  => IsErr(result, "FrameOverflow")
           /\ (self_delimiting /\ two.bytes <= PayloadLen
                  /\ len1 > PayloadLen - two.bytes)
                  => IsErr(result, "UnexpectedEof")

-----------------------------------------------------------------------------
(* C6 *)

\* C6: for every code 3 packet that has a frame count byte, a frame count
\* of 0 gives ZeroFrames and a frame count times the frame duration above
\* 120 ms gives OverlongDuration, whatever the padding flag, the VBR flag
\* and the bytes after the frame count byte are.
C6_FrameCountChecksFirst ==
    (Done /\ Code3) =>
        /\ M = 0 => IsErr(result, "ZeroFrames")
        /\ (M # 0 /\ M * DurationTenthsMs > 1200) => IsErr(result, "OverlongDuration")

\* a code 3 packet announcing padding whose padding-size bytes are missing
\* is turned down for its duration
C6_Witness ==
    /\ Done /\ Code3
    /\ fc_padding(FcByte) /\ buffer.len = 2
    /\ M * DurationTenthsMs > 1200
    /\ IsErr(result, "OverlongDuration")

-----------------------------------------------------------------------------
(* C7 *)

\* the bytes after the frame count byte and the padding-size bytes
AfterPaddingSize == buffer.len - 2 - PadInfo.bytes

\* C7: a code 3 CBR packet with implicit framing whose bytes after the
\* padding-size bytes are M frames of L bytes and P padding bytes decodes
\* to M frames of L bytes, none holding a padding byte, with the padding
\* skipped from the remainder; UnevenFrameLengths only when the frame bytes
\* do not divide evenly among the M frames.
C7_CbrImplicitPadding ==
    (/\ Done /\ Code3
     /\ ~self_delimiting
     /\ ~fc_vbr(FcByte)
     /\ M # 0 /\ M * DurationTenthsMs <= 1200
     /\ 2 + PadInfo.bytes <= buffer.len
     /\ PadInfo.pad <= AfterPaddingSize) =>
        LET frame_bytes == AfterPaddingSize - PadInfo.pad IN
        /\ (frame_bytes % M = 0 /\ frame_bytes \div M <= 1275) =>
              /\ result.kind = "Ok"
              /\ Len(Frames) = M
              /\ \A i \in 1..M : Frames[i].len = frame_bytes \div M
              /\ Contiguous(Frames, 2 + PadInfo.bytes)
              /\ result.rest.len = 0
        /\ IsErr(result, "UnevenFrameLengths") => frame_bytes % M # 0

-----------------------------------------------------------------------------
(* C8 *)

\* C8: a code 3 VBR packet of M frames that decodes has M length codes read
\* when self-delimited and M - 1 when implicit, where the last frame takes
\* the bytes after the padding-size bytes less the length codes, the coded
\* lengths and the padding; the frames follow the length codes, one after
\* the other.
C8_VbrFrameLengths ==
    (Done /\ Code3 /\ fc_vbr(FcByte) /\ result.kind = "Ok") =>
        LET start == 2 + PadInfo.bytes
            coded == CodedLengths(start, IF self_delimiting THEN M ELSE M - 1)
        IN /\ Len(Frames) = M
           /\ \A i \in 1..Len(coded.lens) : Frames[i].len = coded.lens[i]
           /\ ~self_delimiting =>
                 Frames[M].len = (buffer.len - start) - coded.bytes
                                     - SumSeq(coded.lens) - PadInfo.pad
           /\ Contiguous(Frames, start + coded.bytes)

\* the boundary case: one VBR frame, implicit framing, padding present
C8_Witness ==
    /\ Done /\ Code3 /\ fc_vbr(FcByte) /\ result.kind = "Ok"
    /\ ~self_delimiting
    /\ M = 1
    /\ PadInfo.pad > 0
    /\ Frames[1].len > 0

-----------------------------------------------------------------------------
(* C9, C10 *)

Opened == opc = "done"

Aligned(p) == p.first_in_page /\ p.last_in_page

\* C9: when the second packet (the Comment Header) is not both first and
\* last in its page, opening fails with BadPaging, even though the first
\* packet is page-aligned and both packets are otherwise valid.
C9_CommentHeaderPaging ==
    (/\ Opened
     /\ Len(source) >= 2
     /\ source[1].first_in_stream /\ Aligned(source[1])
     /\ IdHeader_new(source[1].data).ok
     /\ CommentHeader_new(source[2].data).ok
     /\ ~Aligned(source[2])) =>
        IsErr(opened, "BadPaging")

\* C10: when the first packet is not first in the stream, or not first in
\* its page, or not last in its page, opening fails with BadPaging whatever
\* the packet holds, and the second packet is not read.
C10_IdHeaderPaging ==
    (/\ Opened
     /\ Len(source) >= 1
     /\ ~(source[1].first_in_stream /\ Aligned(source[1]))) =>
        /\ IsErr(opened, "BadPaging")
        /\ pos = 1

\* a misaligned first packet with the wrong magic number, a second packet
\* waiting behind it
C10_Witness ==
    /\ Opened
    /\ Len(source) = 2
    /\ ~source[1].last_in_page
    /\ source[1].data.len >= 8
    /\ SubSeq(source[1].data.head, 1, 8) # IdHeader_MAGIC
    /\ IsErr(opened, "BadPaging")
    /\ pos = 1

-----------------------------------------------------------------------------
(* C18 *)

\* the number of leading bytes of value 255 in the buffer
RECURSIVE LeadingFF(_)
LeadingFF(p) ==
    IF p < buffer.len /\ BufByte(buffer, p) = 255 THEN 1 + LeadingFF(p + 1) ELSE 0

\* C18: Packet::padding on n bytes of 255 followed by a byte k < 255 gives
\* 254 * n + k, consumes n + 1 bytes and returns the bytes after them; on
\* an empty buffer or one of 255s only it gives UnexpectedEof.
C18_PaddingSize ==
    pc = "padding" =>
        LET n == LeadingFF(0) IN
        IF n < buffer.len
        THEN /\ result.kind = "Ok"
             /\ result.value = 254 * n + BufByte(buffer, n)
             /\ result.used = n + 1
        ELSE IsErr(result, "UnexpectedEof")

\* two continuation bytes, a last byte, and bytes after them
C18_Witness ==
    /\ pc = "padding"
    /\ LeadingFF(0) = 2
    /\ buffer.len > 3
    /\ result.kind = "Ok"
    /\ result.value = 508 + BufByte(buffer, 2)

-----------------------------------------------------------------------------
(* C19 *)

\* C19: Packet::length_code gives UnexpectedEof on an empty buffer, (first,
\* 1) for a first byte 0..251, (second * 4 + first, 2) for a first byte
\* 252..255 with a second byte and UnexpectedEof without one; a decoded
\* length is at most 1275 and 1 or 2 bytes are consumed.
C19_LengthCode ==
    pc = "length_code" =>
        LET first == BufByte(buffer, 0)
            second == BufByte(buffer, 1)
        IN /\ buffer.len = 0 => IsErr(result, "UnexpectedEof")
           /\ (buffer.len >= 1 /\ first <= 251) =>
                 result = [kind |-> "Ok", value |-> first, used |-> 1]
           /\ (buffer.len >= 2 /\ first >= 252) =>
                 result = [kind |-> "Ok", value |-> second * 4 + first, used |-> 2]
           /\ (buffer.len = 1 /\ first >= 252) => IsErr(result, "UnexpectedEof")
           /\ result.kind = "Ok" => result.value <= 1275 /\ result.used \in {1, 2}

\* the longest length there is: 255 * 4 + 255
C19_Witness ==
    /\ pc = "length_code"
    /\ BufByte(buffer, 0) = 255 /\ BufByte(buffer, 1) = 255
    /\ result = [kind |-> "Ok", value |-> 1275, used |-> 2]

-----------------------------------------------------------------------------
(* Claims about the header parsers *)

HdrErr(e) == header = [kind |-> "Err", err |-> e]

\* the first n bytes of the packet
Prefix(n) == Bytes(packet, Slice(0, n))

\* C11: CommentHeader::new on a packet longer than PACKET_LEN_MAX returns
\* DenialOfService whatever the packet holds, and a packet of PACKET_LEN_MAX
\* bytes or fewer never gets DenialOfService.
C11_DenialOfService ==
    hpc = "comment" =>
        (HdrErr("DenialOfService") <=> packet.len > PACKET_LEN_MAX)

\* an oversized packet that does not start with the magic number
C11_Witness ==
    /\ hpc = "comment"
    /\ packet.len = PACKET_LEN_MAX + 1
    /\ Prefix(8) # CommentHeader_MAGIC
    /\ HdrErr("DenialOfService")

\* a comment packet with the right magic number, at most PACKET_LEN_MAX
\* bytes, and its vendor-length and comment-count fields inside the packet
WellFramed ==
    /\ packet.len <= PACKET_LEN_MAX
    /\ packet.len >= 12
    /\ Prefix(8) = CommentHeader_MAGIC
    /\ 12 + read_u32(Bytes(packet, Slice(8, 4))) + 4 <= packet.len

\* the comment count a well-framed comment packet declares
DeclaredCount ==
    read_u32(Bytes(packet, Slice(12 + read_u32(Bytes(packet, Slice(8, 4))), 4)))

\* C12: CommentHeader::new on a well-framed comment packet returns
\* successfully without panicking, keeps at most COMMENTS_IGNORE_LEN bytes of
\* comment data, and stores the declared comment count unchanged.
C12_WellFramedParses ==
    (hpc = "comment" /\ WellFramed) =>
        /\ header.kind = "Ok"
        /\ header.val.comments.len <= COMMENTS_IGNORE_LEN
        /\ header.val.comments_num = DeclaredCount

\* C13: IdHeader::new reads pre_skip from bytes 10..11, sample_rate from
\* bytes 12..15 and output_gain from bytes 16..17 (the two bytes right after
\* the sample rate), each little-endian, so that output_gain does not depend
\* on the last byte of the sample rate.
C13_DisjointFields ==
    (hpc = "id" /\ header.kind = "Ok") =>
        /\ header.val.pre_skip = read_u16(Bytes(packet, Slice(10, 2)))
        /\ header.val.sample_rate = read_u32(Bytes(packet, Slice(12, 4)))
        /\ header.val.output_gain = read_i16(Bytes(packet, Slice(16, 2)))

\* C14: IdHeader::new on a packet that starts with "OpusHead" and has a
\* version byte returns UnsupportedVersion exactly when the high nibble of
\* the version byte is not 0, whatever the other bytes hold; a packet of 8
\* bytes or more that does not start with "OpusHead" gets BadMagic.
C14_VersionNibble ==
    hpc = "id" =>
        /\ (packet.len >= 9 /\ Prefix(8) = IdHeader_MAGIC) =>
               (HdrErr("UnsupportedVersion") <=> BufByte(packet, 8) \div 16 # 0)
        /\ (packet.len >= 8 /\ Prefix(8) # IdHeader_MAGIC) => HdrErr("BadMagic")

\* version 0.15 is parsed, and reported as (0, 15)
C14_Witness ==
    /\ hpc = "id"
    /\ BufByte(packet, 8) = 15
    /\ header.kind = "Ok"
    /\ IdHeader_version(header.val) = <<0, 15>>

-----------------------------------------------------------------------------
(* Claims about the Comments iterator *)

\* the iterator has an entry to read: data and declared comments remain
Active == iter.pos < iter.comments.len /\ iter.comments_read < iter.comments_num

\* the 4-byte length prefix at the cursor lies inside the retained data
PrefixInside == iter.pos + 4 <= iter.comments.len

\* the length the prefix at the cursor declares
DeclaredLen == read_u32(Bytes(packet, Slice(iter.comments.off + iter.pos, 4)))

\* the declared bytes of the entry at the cursor lie inside the retained data
PayloadInside == iter.pos + 4 + DeclaredLen <= iter.comments.len

\* the declared bytes of the entry at the cursor
Payload == Bytes(packet, Slice(iter.comments.off + iter.pos + 4, DeclaredLen))

\* the entry at the cursor is valid UTF-8 and holds a '='
WellFormedEntry ==
    /\ PayloadInside
    /\ from_utf8_ok(Payload)
    /\ \E i \in 1..DeclaredLen : Payload[i] = 61

\* C15: Comments::next on an entry whose length prefix is inside the data
\* but whose payload is malformed returns None, moves the cursor on by 4 plus
\* the declared length and counts the entry; on a well-formed entry it
\* returns the pair, so a well-formed comment after a malformed one is
\* returned by the next call.
C15_SkipsMalformed ==
    [][(hpc = "iter" /\ Active /\ PrefixInside) =>
          /\ iter'.pos = iter.pos + 4 + DeclaredLen
          /\ iter'.comments_read = iter.comments_read + 1
          /\ ~WellFormedEntry => last' = None
          /\ WellFormedEntry =>
                 /\ last'.kind = "Some"
                 /\ last'.name \o <<61>> \o last'.value = Payload
                 /\ \A i \in 1..Len(last'.name) : last'.name[i] # 61]_vars

\* two comments declared, the first malformed, the second "TITLE=Song": the
\* second call has returned ("TITLE", "Song")
C15_Witness ==
    /\ hpc = "iter"
    /\ iter.comments_num = 2
    /\ iter.comments_read = 2
    /\ yielded = 1
    /\ last = Some(<<84, 73, 84, 76, 69>>, <<83, 111, 110, 103>>)

\* the iterator is exhausted: every declared comment has been read, or the
\* cursor is at or past the end of the data
Exhausted ==
    iter.comments_read = iter.comments_num \/ iter.pos >= iter.comments.len

\* C16: comments_read never exceeds comments_num, at most comments_num pairs
\* are returned, the cursor never moves back, and once the iterator is
\* exhausted every further next() returns None and leaves it unchanged.
C16_IteratorBounded ==
    /\ [](hpc = "iter" =>
             /\ iter.comments_read <= iter.comments_num
             /\ yielded <= iter.comments_read
             /\ Comments_size_hint(iter) >= 0)
    /\ [][hpc = "iter" =>
             /\ iter'.pos >= iter.pos
             /\ Exhausted => (last' = None /\ iter' = iter /\ yielded' = yielded)]_vars

\* every declared comment has been returned, data remains, and a further
\* call has returned None
C16_Witness ==
    /\ hpc = "iter"
    /\ iter.comments_num > 0
    /\ iter.comments_read = iter.comments_num
    /\ yielded = iter.comments_num
    /\ iter.pos < iter.comments.len
    /\ last = None

-----------------------------------------------------------------------------
(* Claims about OggOpusReader::read_samples *)

\* the reader is open and its source has no packets left
SourceExhausted == opc = "done" /\ opened.kind = "Ok" /\ pos >= Len(source)

\* C17: once an opened reader's source has no packets left, every
\* read_samples returns Ok(0), does not call the decoder and leaves the
\* parsed headers unchanged; and no read_samples pulls more than one packet
\* from the source.
C17_EndOfStream ==
    [][/\ SourceExhausted =>
             /\ samples' = [kind |-> "Ok", value |-> 0]
             /\ decoded' = decoded
             /\ opened' = opened
             /\ pos' = pos
       /\ opc = "done" => (pos' <= pos + 1 /\ opened' = opened)]_vars

\* every audio packet has been decoded and a further read_samples has
\* returned Ok(0)
C17_Witness ==
    /\ SourceExhausted
    /\ Len(source) > 2
    /\ decoded = Len(source) - 2
    /\ samples = [kind |-> "Ok", value |-> 0]

====
